---- MODULE Spec2Model ----
(***************************************************************************)
(* Playback clock of the motion viewer (ThreeView.tsx): the React state    *)
(* time / duration / playing / speed / snapFrames / jsonDuration, the      *)
(* refs subFrameAccRef and lastTsRef, and the handlers that change them.  *)
(*                                                                         *)
(* Numbers are fixed point.  One second is UnitsPerSecond time units, so   *)
(* a frame (1/FPS s) is UnitsPerFrame units and half a frame is a whole    *)
(* number of units.  The speed multiplier is kept in tenths (1.0 = 10).    *)
(* Signal time (tJson, jsonDuration) is counted in 1/SignalScale seconds.  *)
(***************************************************************************)
EXTENDS Integers, FiniteSets, Sequences, TLC

VARIABLES time, duration, playing, speed, snapFrames, subFrameAcc,
          jsonDuration, lastTsNull, last

\* the sheet normalizer (utils/excel.ts) at work on one sheet: its inputs
\* (the raw table, the frame-rate argument), how far it has got, and the
\* values detectHeaderAndExtract and normalizeSheet returned
VARIABLES table, fpsGuess, sheetPc, extract, cleaned

sheetVars == <<table, fpsGuess, sheetPc, extract, cleaned>>

\* the loaders of ThreeView.tsx: the selected player and session, the stored
\* manifest, whose model (fbxUrl) and whose chart data (rowsBySheet) are displayed,
\* the manifest and spreadsheet requests still in flight, and what the
\* latest loader event was
VARIABLES playerName, manifest, session, fbxUrl, rowsBySheet, manifestLoads,
          excelLoads, loadEvent

loadVars == <<playerName, manifest, session, fbxUrl, rowsBySheet, manifestLoads,
              excelLoads, loadEvent>>

\* how far the latest tick moved the time forward, the fold at the end of
\* the clip undone
VARIABLE advance

\* the sub-frame accumulator seen from outside: its value when the latest
\* handler started (before), whether that handler changed one of speed,
\* snapFrames, playing and duration (changed), the simulated time dt * s of
\* the latest tick (delta), the time that tick added to the clock before
\* wrapping (applied), and the sum of delta less the sum of applied over
\* the ticks since the accumulator was last cleared (owed)
VARIABLE carry

\* the interaction layer of a chart (SimpleGraph.tsx): the state hoverT as
\* of the latest render (no time: the empty set), downRef, and the latest
\* pointer event: its kind, its x in the chart's box, and the time of the
\* seek it emitted (none: the empty set)
VARIABLE chart

vars == <<time, duration, playing, speed, snapFrames, subFrameAcc,
          jsonDuration, lastTsNull, last, sheetVars, loadVars, advance, carry, chart>>

\* what is not selected, stored or displayed: null
Null == "null"
NoOwner == [player |-> Null, session |-> Null]
\* the players of DEFAULT_PLAYERS and the sessions their manifests list
Players == {"A", "B"}
InitialPlayer == "A"

\* nothing has been carried and nothing is owed
CarryIdle == [before |-> 0, changed |-> FALSE, delta |-> 0, applied |-> 0, owed |-> 0]

\* no pointer has come near the chart
ChartIdle == [hoverT |-> {}, down |-> FALSE, event |-> "none", px |-> 0, seek |-> {}]

\* nothing is selected, loaded or requested
LoadIdle ==
  /\ playerName = InitialPlayer
  /\ manifest = Null
  /\ session = Null
  /\ fbxUrl = NoOwner
  /\ rowsBySheet = NoOwner
  /\ manifestLoads = {}
  /\ excelLoads = {}
  /\ loadEvent = "none"

\* no sheet is being parsed
SheetIdle ==
  /\ table = <<>>
  /\ fpsGuess = [given |-> FALSE, value |-> 0]
  /\ sheetPc = "idle"
  /\ extract = [bestIdx |-> 0, headers |-> <<>>, dataRows |-> <<>>]
  /\ cleaned = <<>>

(* ---------------------------- numeric scale ---------------------------- *)

FPS == 120
\* the speed slider moves in steps of 0.1: speed is an integer count of tenths
SpeedScale == 10
UnitsPerFrame == SpeedScale
UnitsPerSecond == FPS * UnitsPerFrame
\* const step = 1 / FPS
step == UnitsPerSecond \div FPS
\* the upper clamp set at one second
MaxDtOneSecond == UnitsPerSecond

\* Math.min(Math.max(dtRaw, 0), 0.05): the upper clamp, 0.05 s
MaxDt == (5 * UnitsPerSecond) \div 100
\* Math.min(2, Math.max(0.1, speed)), in tenths
MinSpeed == 1
MaxSpeed == 20

(* ------------------------------- bounds -------------------------------- *)

\* clip durations are 0 (no clip) or 1..MaxDurHalfFrames half frames
MaxDurHalfFrames == 4
\* a frame callback arrives -1..MaxDtRawFrames frames after the previous one
MaxDtRawFrames == 7
\* the selected channel spans 0..MaxSignalDuration seconds
MaxSignalDuration == 2
\* signal time is counted in 1/SignalScale seconds
SignalScale == 5

HalfFrame == step \div 2
Durations == {0} \cup {k * HalfFrame : k \in 1..MaxDurHalfFrames}
DtRawInputs == {k * step : k \in -1..MaxDtRawFrames}
SignalDurations == {k * SignalScale : k \in 0..MaxSignalDuration}
SignalTimes == -1..(MaxSignalDuration * SignalScale + 1)
\* values handed to setSpeed, in tenths: below 0.1, inside the range, above 2
SpeedInputs == {-5, 10, 25}

Min(a, b) == IF a <= b THEN a ELSE b
Max(a, b) == IF a >= b THEN a ELSE b

(* ------------------------- arithmetic of the code ---------------------- *)

\* JavaScript a % b: the remainder takes the sign of the dividend
JsRem(a, b) == IF a >= 0 THEN a % b ELSE 0 - ((0 - a) % b)

\* a wrap that lets a value equal to dur through
WrapTimeOnlyPast(t, dur) == IF t >= 0 /\ t <= dur THEN t ELSE JsRem(JsRem(t, dur) + dur, dur)

\* ((t % dur) + dur) % dur
WrapTime(t, dur) == JsRem(JsRem(t, dur) + dur, dur)

\* Math.floor in place of Math.round
FloorToFrame(t) == (t \div step) * step

\* Math.round(t * FPS) / FPS: Math.round(x) is floor(x + 1/2)
RoundToFrame(t) == ((2 * t + step) \div (2 * step)) * step

\* the stored speed used as it is
EffectiveSpeedUnclamped(sp) == sp

\* let s = Math.min(2, Math.max(0.1, speed))
EffectiveSpeed(sp) == Min(MaxSpeed, Max(MinSpeed, sp))

(* ------------------------------ playback ------------------------------- *)

\* a guard that forgets the playing flag
TickIdleIgnoresPause == duration <= 0

\* if (!playing || duration <= 0) return prev;
TickIdle == ~playing \/ duration <= 0

\* half a step per frame
FramesTimeHalfStep(frames) == frames * HalfFrame

\* frames * step, the whole frames applied to prev
FramesTime(frames) == frames * step

\* a clamp that stops at the end of the clip
ClampToLoopWhole(next, dur) == Min(Max(0, next), Max(0, dur))

\* next = Math.min(Math.max(0, next), Math.max(0, duration - step / 2))
ClampToLoop(next, dur) == Min(Max(0, next), Max(0, dur - HalfFrame))

\* the updater handed to setTime by loop(): the next time, the accumulator
\* left in subFrameAccRef, the multiplier s that was applied (0: none),
\* whether the modulo folded the time back (next >= duration), and the local
\* next as it was before the modulo (prev when the updater returns early)
TickUpdate(prev, acc, dt) ==
  IF TickIdle
  THEN [time |-> prev, acc |-> acc, s |-> 0, wrapped |-> FALSE, next |-> prev]
  ELSE LET s == EffectiveSpeed(speed)
           delta == (dt * s) \div SpeedScale
       IN IF ~snapFrames
          THEN [time |-> IF duration > 0 THEN WrapTime(prev + delta, duration)
                                         ELSE prev + delta,
                acc |-> acc, s |-> s, wrapped |-> prev + delta >= duration,
                next |-> prev + delta]
          ELSE LET acc2 == acc + delta
                   frames == acc2 \div step
                   rest == acc2 - frames * step
                   next == prev + FramesTime(frames)
               IN IF frames <= 0
                  THEN [time |-> prev, acc |-> rest, s |-> s, wrapped |-> FALSE,
                        next |-> prev]
                  ELSE [time |-> IF duration > 0
                                 THEN ClampToLoop(WrapTime(next, duration), duration)
                                 ELSE next,
                        acc |-> rest, s |-> s, wrapped |-> next >= duration,
                        next |-> next]

\* handleGraphSeek whose fallback branch does not snap
SeekTimeFallbackUnsnapped(tJson) ==
  IF duration > 0 /\ jsonDuration > 0
  THEN LET t0 == (tJson * duration) \div jsonDuration
           t == IF snapFrames THEN RoundToFrame(t0) ELSE t0
       IN Max(0, Min(duration, t))
  ELSE IF duration > 0
       THEN Max(0, Min(duration, (tJson * UnitsPerSecond) \div SignalScale))
       ELSE time

\* handleGraphSeek(tJson): the value handed to setTime (time itself when
\* neither branch is taken)
SeekTime(tJson) ==
  IF duration > 0 /\ jsonDuration > 0
  THEN LET t0 == (tJson * duration) \div jsonDuration
           t == IF snapFrames THEN RoundToFrame(t0) ELSE t0
       IN Max(0, Min(duration, t))
  ELSE IF duration > 0
       THEN LET t0 == Max(0, Min(duration, (tJson * UnitsPerSecond) \div SignalScale))
            IN IF snapFrames THEN RoundToFrame(t0) ELSE t0
       ELSE time

\* the values the time slider can emit: min 0, max duration, step 1/FPS when
\* snapping and duration/1000 (finer than a time unit) otherwise.  Every
\* duration > 0 of the model is above the 0.001 s floor of max.
SliderValues ==
  IF snapFrames THEN {k * step : k \in 0..(duration \div step)} ELSE 0..duration

\* onChange of the time slider
SliderTime(t) == IF snapFrames THEN RoundToFrame(t) ELSE t

\* a ready-duration handler that keeps the old time
ReadyTimeUnwrapped(t, dur) == IF dur > 0 THEN t ELSE 0

\* a ready-duration handler that clamps instead of wrapping
ReadyTimeClamped(t, dur) == IF dur > 0 THEN Min(t, dur) ELSE 0

\* onReadyDuration: setTime((t) => (dur > 0 ? (t % dur + dur) % dur : 0))
ReadyTime(t, dur) == IF dur > 0 THEN WrapTime(t, dur) ELSE 0

\* the dependency list [speed, snapFrames, playing, duration] of the effect
\* that clears subFrameAccRef and of startLoop (whose rebuild restarts the loop)
DepsChanged ==
  speed' # speed \/ snapFrames' # snapFrames \/ playing' # playing \/ duration' # duration

\* an effect whose dependency list leaves out speed
AccResetEffectNoSpeed(acc) ==
  subFrameAcc' = IF snapFrames' # snapFrames \/ playing' # playing \/ duration' # duration
                 THEN 0 ELSE acc

\* useEffect(() => { subFrameAccRef.current = 0; }, [speed, snapFrames, playing, duration])
AccResetEffect(acc) == subFrameAcc' = IF DepsChanged THEN 0 ELSE acc

\* useEffect(() => { startLoop(); return cancelLoop; }): cancelLoop sets lastTsRef = null
LoopRestartEffect(isNull) == lastTsNull' = IF DepsChanged THEN TRUE ELSE isNull

\* what the latest handler was: its name, its argument (for a tick the
\* multiplier applied) and, for a ready-duration event, the time before it
\* (for a tick, 1 when the time was folded back)
Did(op, arg, prev) == last' = [op |-> op, arg |-> arg, prev |-> prev]

Init ==
  /\ time = 0
  /\ duration = 0
  /\ playing = TRUE
  /\ speed = SpeedScale
  /\ snapFrames = TRUE
  /\ subFrameAcc = 0
  /\ jsonDuration = 0
  /\ lastTsNull = TRUE
  /\ last = [op |-> "init", arg |-> 0, prev |-> 0]
  /\ SheetIdle
  /\ LoadIdle
  /\ advance = 0
  /\ carry = CarryIdle
  /\ chart = ChartIdle

\* one animation frame: loop(ts)
Tick(dtRaw) ==
  LET dtSince == IF lastTsNull THEN 0 ELSE dtRaw
      dt == Min(Max(dtSince, 0), MaxDt)
      u == TickUpdate(time, subFrameAcc, dt)
  IN /\ time' = u.time
     /\ subFrameAcc' = u.acc
     /\ lastTsNull' = FALSE
     /\ Did("tick", u.s, IF u.wrapped THEN 1 ELSE 0)
     /\ UNCHANGED <<duration, playing, speed, snapFrames, jsonDuration>>

\* a chart reports a seek to signal time tJson (only inputs whose
\* proportional image is a whole number of time units)
HandleGraphSeek(tJson) ==
  /\ jsonDuration > 0 => (tJson * duration) % jsonDuration = 0
  /\ time' = SeekTime(tJson)
  /\ Did("seek", tJson, 0)
  /\ UNCHANGED <<duration, playing, speed, snapFrames, subFrameAcc, jsonDuration,
                 lastTsNull>>

\* the time slider is moved to t (disabled while duration <= 0)
SliderChange(t) ==
  /\ duration > 0
  /\ time' = SliderTime(t)
  /\ Did("scrub", t, 0)
  /\ UNCHANGED <<duration, playing, speed, snapFrames, subFrameAcc, jsonDuration,
                 lastTsNull>>

\* a Reset that also pauses playback
ResetAndPause ==
  /\ duration > 0
  /\ time' = 0
  /\ playing' = FALSE
  /\ UNCHANGED <<duration, speed, snapFrames, jsonDuration>>
  /\ AccResetEffect(subFrameAcc)
  /\ LoopRestartEffect(lastTsNull)
  /\ Did("reset", 0, 0)

\* the Reset button: setTime(0)
Reset ==
  /\ duration > 0
  /\ time' = 0
  /\ Did("reset", 0, 0)
  /\ UNCHANGED <<duration, playing, speed, snapFrames, subFrameAcc, jsonDuration,
                 lastTsNull>>

\* the speed slider: setSpeed(parseFloat(e.target.value))
SetSpeed(x) ==
  /\ duration > 0
  /\ speed' = x
  /\ UNCHANGED <<time, duration, playing, snapFrames, jsonDuration>>
  /\ AccResetEffect(subFrameAcc)
  /\ LoopRestartEffect(lastTsNull)
  /\ Did("setSpeed", x, 0)

\* the Play/Pause button: setPlaying((p) => !p)
TogglePlaying ==
  /\ duration > 0
  /\ playing' = ~playing
  /\ UNCHANGED <<time, duration, speed, snapFrames, jsonDuration>>
  /\ AccResetEffect(subFrameAcc)
  /\ LoopRestartEffect(lastTsNull)
  /\ Did("togglePlaying", 0, 0)

\* the "Snap to frames" checkbox: setSnapFrames(e.target.checked)
ToggleSnapFrames ==
  /\ snapFrames' = ~snapFrames
  /\ UNCHANGED <<time, duration, playing, speed, jsonDuration>>
  /\ AccResetEffect(subFrameAcc)
  /\ LoopRestartEffect(lastTsNull)
  /\ Did("toggleSnap", 0, 0)

\* FBXModel reports the duration of the clip it has bound
OnReadyDuration(dur) ==
  /\ duration' = dur
  /\ time' = ReadyTime(time, dur)
  /\ UNCHANGED <<playing, speed, snapFrames, jsonDuration>>
  /\ AccResetEffect(subFrameAcc)
  /\ LoopRestartEffect(lastTsNull)
  /\ Did("ready", dur, time)

\* a new clip is selected (session effect, handleFbxFile):
\* setFbxUrl(..); setPlaying(true); setTime(0)
LoadClip ==
  /\ playing' = TRUE
  /\ time' = 0
  /\ UNCHANGED <<duration, speed, snapFrames, jsonDuration>>
  /\ AccResetEffect(subFrameAcc)
  /\ LoopRestartEffect(lastTsNull)
  /\ Did("load", 0, 0)

\* the series effect: setJsonDuration(dur) after a channel or data change
SetJsonDuration(dur) ==
  /\ jsonDuration' = dur
  /\ Did("series", dur, 0)
  /\ UNCHANGED <<time, duration, playing, speed, snapFrames, subFrameAcc, lastTsNull>>

Next ==
  /\ \/ \E dtRaw \in DtRawInputs : Tick(dtRaw)
     \/ \E tJson \in SignalTimes : HandleGraphSeek(tJson)
     \/ \E t \in SliderValues : SliderChange(t)
     \/ Reset
     \/ \E x \in SpeedInputs : SetSpeed(x)
     \/ TogglePlaying
     \/ ToggleSnapFrames
     \/ \E dur \in Durations : OnReadyDuration(dur)
     \/ LoadClip
     \/ \E dur \in SignalDurations : SetJsonDuration(dur)
  /\ UNCHANGED <<sheetVars, loadVars, advance, carry, chart>>

Spec == Init /\ [][Next]_vars

TypeOK ==
  /\ time \in Nat
  /\ duration \in Durations
  /\ playing \in BOOLEAN
  /\ speed \in SpeedInputs \cup {SpeedScale}
  /\ snapFrames \in BOOLEAN
  /\ subFrameAcc \in 0..(step - 1)
  /\ jsonDuration \in SignalDurations
  /\ lastTsNull \in BOOLEAN


(* ----------------- the clock under tick calls alone -------------------- *)

\* a clip of some duration > 0 is bound, the clock is at 0, and the stored
\* speed, the quantize flag and the playing flag have any value
InitClock ==
  /\ time = 0
  /\ duration \in Durations \ {0}
  /\ playing \in BOOLEAN
  /\ speed \in SpeedInputs \cup {SpeedScale}
  /\ snapFrames \in BOOLEAN
  /\ subFrameAcc = 0
  /\ jsonDuration = 0
  /\ lastTsNull = TRUE
  /\ last = [op |-> "init", arg |-> 0, prev |-> 0]
  /\ SheetIdle
  /\ LoadIdle
  /\ advance = 0
  /\ carry = CarryIdle
  /\ chart = ChartIdle

NextClock ==
  /\ \/ \E dtRaw \in DtRawInputs : Tick(dtRaw)
     \/ \E x \in SpeedInputs : SetSpeed(x)
     \/ TogglePlaying
     \/ ToggleSnapFrames
  /\ UNCHANGED <<sheetVars, loadVars, advance, carry, chart>>

SpecClock == InitClock /\ [][NextClock]_vars

(* ------------------------------ projections ---------------------------- *)

\* SimpleGraph: xMax = jsonDuration > 0 ? jsonDuration : (span of the data);
\* the series is normalised to start at 0 and to end at jsonDuration
xMax == jsonDuration

\* SimpleGraph: currentJsonTime =
\*   (fbxDuration > 0 && xMax > 0) ? (time / fbxDuration) * xMax : time
\* as the fraction num / den of signal units
CurrentJsonTime ==
  IF duration > 0 /\ xMax > 0
  THEN [num |-> time * xMax, den |-> duration]
  ELSE [num |-> time * SignalScale, den |-> UnitsPerSecond]

\* CurrentJsonTime minus tSignal, times 2 * animationDuration: the round-trip
\* error of a seek to tSignal in half signal units per unit of duration
RoundTripError(tSignal) ==
  2 * (CurrentJsonTime.num - tSignal * CurrentJsonTime.den)

(* -------------------------------- claims ------------------------------- *)

\* C1: starting from currentTime = 0 with a fixed animationDuration > 0, after
\* any sequence of tick calls (any dt, any stored speed, continuous or
\* quantized, playing or paused) 0 <= currentTime < animationDuration.
C1_ClockWrap == time >= 0 /\ time < duration

\* C1 witness: a playing tick has wrapped the clock past the end of the clip
C1_Witness ==
  /\ last.op = "tick"
  /\ last.arg # 0
  /\ last.prev = 1
  /\ time > 0
  /\ duration > step

C3_Original ==
  (duration > 0 /\ snapFrames /\ last.op = "tick") => time % step = 0

\* C3 amended: when animationDuration is a whole number of frames and
\* currentTime is a whole number of frames, a tick in Bound-Quantized state
\* leaves currentTime a whole number of frames.
C3_QuantizedTickKeepsGrid ==
  [][(last'.op = "tick" /\ snapFrames /\ duration > 0
      /\ duration % step = 0 /\ time % step = 0) => time' % step = 0]_vars

\* C3 witness: a quantized tick has applied whole frames on a clip that is a
\* whole number of frames long
C3_Witness ==
  /\ last.op = "tick"
  /\ last.arg # 0
  /\ snapFrames
  /\ duration > step
  /\ duration % step = 0
  /\ time > 0
  /\ time % step = 0

\* C4 as stated: for animationDuration > 0, signalDuration > 0 and tSignal in
\* [0, signalDuration], seeking to tSignal and projecting currentTime back to
\* signal time yields tSignal.
C4_Original ==
  (last.op = "seek" /\ duration > 0 /\ jsonDuration > 0
   /\ last.arg >= 0 /\ last.arg <= jsonDuration)
  => CurrentJsonTime.num = last.arg * CurrentJsonTime.den

\* C4 amended: under the same conditions the round trip yields tSignal when
\* quantizeToFrames is off; when it is on, the result differs from tSignal by
\* at most the signal time of half a frame,
\* (1/240 s) x signalDuration / animationDuration.
C4_SeekRoundTrip ==
  (last.op = "seek" /\ duration > 0 /\ jsonDuration > 0
   /\ last.arg >= 0 /\ last.arg <= jsonDuration)
  => IF snapFrames
     THEN /\ RoundTripError(last.arg) <= step * jsonDuration
          /\ RoundTripError(last.arg) >= 0 - step * jsonDuration
     ELSE CurrentJsonTime.num = last.arg * CurrentJsonTime.den

\* C4 witness: an unquantized seek strictly inside the signal range, and a
\* quantized one that moved the target by the full half frame
C4_Witness ==
  /\ last.op = "seek"
  /\ duration > 0
  /\ jsonDuration > 0
  /\ last.arg > 0
  /\ last.arg < jsonDuration
  /\ time > 0
  /\ \/ ~snapFrames /\ time % step # 0
     \/ snapFrames /\ RoundTripError(last.arg) = step * jsonDuration

C6_IdleTickNoOp ==
  [][(last'.op = "tick" /\ (~playing \/ duration <= 0))
       => (time' = time /\ subFrameAcc' = subFrameAcc)]_vars

\* C6 witness: a tick has run on a paused clock that is not at 0
C6_Witness ==
  /\ last.op = "tick"
  /\ ~playing
  /\ duration > 0
  /\ time > 0
  /\ ~lastTsNull

\* C7: after seekBySignalTime with animationDuration > 0, for any tSignal and
\* either setting of quantizeToFrames, currentTime lies in
\* [0, animationDuration], in the proportional and in the fallback branch.
C7_SeekInRange ==
  (last.op = "seek" /\ duration > 0) => (time >= 0 /\ time <= duration)

\* C8 as stated: after any seek performed while quantizeToFrames is on (chart
\* seek in either branch, or slider scrub), currentTime is a whole number of
\* frames.
C8_Original ==
  (last.op \in {"seek", "scrub"} /\ snapFrames /\ duration > 0)
  => time % step = 0

\* C8 amended: after such a seek currentTime is a whole number of frames,
\* except that a proportional chart seek (signalDuration > 0) whose snapped
\* target lies above animationDuration leaves currentTime = animationDuration.
C8_SeekOnGrid ==
  (last.op \in {"seek", "scrub"} /\ snapFrames /\ duration > 0)
  => \/ time % step = 0
     \/ last.op = "seek" /\ jsonDuration > 0 /\ time = duration

\* C8 witness: a quantized seek has snapped a target that was off the grid,
\* in the proportional branch and in the fallback branch
C8_Witness ==
  /\ last.op = "seek"
  /\ snapFrames
  /\ duration > 0
  /\ time > 0
  /\ time % step = 0
  /\ \/ jsonDuration > 0 /\ (last.arg * duration) \div jsonDuration # time
     \/ jsonDuration = 0 /\ duration % step # 0

\* C9 as stated: reset() sets currentTime to 0 and sets subFrameAccumulator
\* to 0.
C9_Original == last.op = "reset" => (time = 0 /\ subFrameAcc = 0)

\* C9 amended: reset() sets currentTime to 0 and leaves playing, speed,
\* quantize, animationDuration and subFrameAccumulator unchanged.
C9_ResetEffect ==
  [][last'.op = "reset"
       => /\ time' = 0
          /\ UNCHANGED <<playing, speed, snapFrames, duration, subFrameAcc>>]_vars

\* C9 witness: reset has run while the accumulator held a fraction of a frame
C9_Witness == last.op = "reset" /\ time = 0 /\ subFrameAcc > 0 /\ playing

\* C10: a ready-duration event with value d sets animationDuration = d and
\* re-wraps currentTime: currentTime = (old currentTime mod d) in [0, d) when
\* d > 0, and currentTime = 0 when d <= 0.
C10_ReadyRewraps ==
  last.op = "ready"
  => /\ duration = last.arg
     /\ IF last.arg > 0
        THEN time = last.prev % last.arg /\ time >= 0 /\ time < last.arg
        ELSE time = 0

\* C10 witness: the event arrived with the clock beyond the new duration
C10_Witness ==
  /\ last.op = "ready"
  /\ duration > 0
  /\ last.prev > duration
  /\ time > 0

(* ======================= the sheet normalizer ========================== *)
(* utils/excel.ts.  A string is the sequence of its characters, so that    *)
(* trim, the regular expressions and Number() are computed on the text.    *)
(* A cell of the raw table (sheet_to_json with header: 1, defval: null,    *)
(* raw: true) is null, a number or a string.  A number is a fraction       *)
(* num / den, or NaN.                                                      *)

NullCell == [kind |-> "null", n |-> 0, s |-> <<>>]
NumCell(n) == [kind |-> "num", n |-> n, s |-> <<>>]
StrCell(s) == [kind |-> "str", n |-> 0, s |-> s]

NaN == [nan |-> TRUE, num |-> 0, den |-> 1]
Val(n) == [nan |-> FALSE, num |-> n, den |-> 1]
\* Number.isFinite(v)
IsFinite(v) == ~v.nan
\* v / d for a positive integer d
DivBy(v, d) == IF v.nan THEN NaN ELSE [nan |-> FALSE, num |-> v.num, den |-> v.den * d]

Digits == <<"0","1","2","3","4","5","6","7","8","9">>

\* the /i flag: characters are compared in lower case
ToLower(c) ==
  LET UpperCase == <<"A","B","C","D","E","F","G","H","I","J","K","L","M",
                     "N","O","P","Q","R","S","T","U","V","W","X","Y","Z">>
      LowerCase == <<"a","b","c","d","e","f","g","h","i","j","k","l","m",
                     "n","o","p","q","r","s","t","u","v","w","x","y","z">>
  IN IF \E i \in 1..Len(UpperCase) : UpperCase[i] = c
     THEN LowerCase[CHOOSE i \in 1..Len(UpperCase) : UpperCase[i] = c]
     ELSE c

\* the pattern (a literal, in lower case) matches s at position i
MatchAt(s, pat, i) ==
  /\ i >= 1
  /\ i + Len(pat) - 1 <= Len(s)
  /\ \A j \in 1..Len(pat) : ToLower(s[i + j - 1]) = pat[j]

\* /pat/i.test(s) for a literal pat
Contains(s, pat) == \E i \in 1..(Len(s) + 1) : MatchAt(s, pat, i)

\* /^pat$/i.test(s) for a literal pat
Equals(s, pat) == Len(s) = Len(pat) /\ MatchAt(s, pat, 1)

\* String.prototype.trim
RECURSIVE TrimStart(_)
TrimStart(s) == IF s # <<>> /\ Head(s) = " " THEN TrimStart(Tail(s)) ELSE s
RECURSIVE TrimEnd(_)
TrimEnd(s) ==
  IF s # <<>> /\ s[Len(s)] = " " THEN TrimEnd(SubSeq(s, 1, Len(s) - 1)) ELSE s
Trim(s) == TrimEnd(TrimStart(s))

\* s.replace(/,/g, "")
StripCommas(s) == SelectSeq(s, LAMBDA c : c # ",")

\* String(n) for an integer n >= 0
RECURSIVE DigitsOf(_)
DigitsOf(n) ==
  IF n < 10 THEN <<Digits[n + 1]>> ELSE DigitsOf(n \div 10) \o <<Digits[(n % 10) + 1]>>

IsDigit(c) == \E i \in 1..Len(Digits) : Digits[i] = c
DigitValue(c) == (CHOOSE i \in 1..Len(Digits) : Digits[i] = c) - 1
RECURSIVE DecimalValue(_)
DecimalValue(s) ==
  IF s = <<>> THEN 0 ELSE 10 * DecimalValue(SubSeq(s, 1, Len(s) - 1)) + DigitValue(s[Len(s)])

\* Number(s) for a string: leading and trailing white space is ignored, the
\* empty string is 0, a run of decimal digits is its value, and any other
\* text of the alphabet used here (letters, blanks, commas, brackets) is NaN
NumberOfString(s) ==
  LET u == Trim(s)
  IN IF u = <<>> THEN Val(0)
     ELSE IF \A i \in 1..Len(u) : IsDigit(u[i]) THEN Val(DecimalValue(u))
     ELSE NaN

(* ------------------------ detectHeaderAndExtract ----------------------- *)

\* const scanUpto = Math.min(table.length, 20)
ScanLimit == 20

IsNonEmptyString(c) == c.kind = "str" /\ Trim(c.s) # <<>>

\* row.filter(typeof c === "string" && c.trim() !== "").length
NonEmpty(row) == Cardinality({i \in 1..Len(row) : IsNonEmptyString(row[i])})

\* /^(t|time|timestamp)$/i.test(c.trim()) for some string cell
HasTime(row) ==
  \E i \in 1..Len(row) :
    /\ row[i].kind = "str"
    /\ \/ Equals(Trim(row[i].s), <<"t">>)
       \/ Equals(Trim(row[i].s), <<"t","i","m","e">>)
       \/ Equals(Trim(row[i].s), <<"t","i","m","e","s","t","a","m","p">>)

\* /frame/i.test(c.trim()) for some string cell
HasFrame(row) ==
  \E i \in 1..Len(row) :
    row[i].kind = "str" /\ Contains(Trim(row[i].s), <<"f","r","a","m","e">>)

\* the penalty for title-only rows left out
ScoreUnpenalized(row) ==
  NonEmpty(row) + (IF HasTime(row) THEN 3 ELSE 0) + (IF HasFrame(row) THEN 2 ELSE 0)

\* let score = nonEmpty + (hasTime ? 3 : 0) + (hasFrame ? 2 : 0);
\* if (nonEmpty <= 1) score -= 3
Score(row) ==
  LET score == NonEmpty(row) + (IF HasTime(row) THEN 3 ELSE 0)
                             + (IF HasFrame(row) THEN 2 ELSE 0)
  IN IF NonEmpty(row) <= 1 THEN score - 3 ELSE score

\* the scan loop from row i (0-based) on: if (score > bestScore) { ... }
RECURSIVE ScanRows(_, _, _, _)
ScanRows(tbl, i, bestIdx, bestScore) ==
  IF i >= Min(Len(tbl), ScanLimit) THEN bestIdx
  ELSE IF Score(tbl[i + 1]) > bestScore
       THEN ScanRows(tbl, i + 1, i, Score(tbl[i + 1]))
       ELSE ScanRows(tbl, i + 1, bestIdx, bestScore)

\* let bestIdx = 0; let bestScore = -1; then the scan
BestIdx(tbl) == ScanRows(tbl, 0, 0, -1)

\* v == null ? "" : String(v)
StringOf(c) ==
  IF c.kind = "null" THEN <<>>
  ELSE IF c.kind = "num" THEN DigitsOf(c.n)
  ELSE c.s

\* const t = h.trim(); return t !== "" ? t : `EMPTY ${i + 1}`   (i 0-based)
Placeholder(h, i) ==
  IF Trim(h) # <<>> THEN Trim(h) ELSE <<"E","M","P","T","Y"," ">> \o DigitsOf(i + 1)

\* every repeat of a name gets the suffix (2)
DedupedNameAlwaysTwo(base, n) ==
  IF n = 1 THEN base ELSE base \o <<" ","(">> \o DigitsOf(2) \o <<")">>

\* n === 1 ? base : `${base} (${n})`
DedupedName(base, n) ==
  IF n = 1 THEN base ELSE base \o <<" ","(">> \o DigitsOf(n) \o <<")">>

\* seen.get(base) ?? 0
SeenCount(seen, base) == IF base \in DOMAIN seen THEN seen[base] ELSE 0

\* hs.map(...) from position i (1-based) on, with the Map seen
RECURSIVE DedupeFrom(_, _, _)
DedupeFrom(hs, i, seen) ==
  IF i > Len(hs) THEN <<>>
  ELSE LET base == hs[i]
           n == SeenCount(seen, base) + 1
           seenNext == [b \in DOMAIN seen \cup {base} |-> IF b = base THEN n ELSE seen[b]]
       IN <<DedupedName(base, n)>> \o DedupeFrom(hs, i + 1, seenNext)

dedupeHeaders(hs) == DedupeFrom(hs, 1, <<>>)

\* the header row, the headers made from it and the rows after it
detectHeaderAndExtract(tbl) ==
  LET bestIdx == BestIdx(tbl)
      rawHeaders == [i \in 1..Len(tbl[bestIdx + 1]) |-> StringOf(tbl[bestIdx + 1][i])]
      named == [i \in 1..Len(rawHeaders) |-> Placeholder(rawHeaders[i], i - 1)]
  IN [bestIdx |-> bestIdx,
      headers |-> dedupeHeaders(named),
      dataRows |-> SubSeq(tbl, bestIdx + 2, Len(tbl))]

(* ------------------------ toObjects, normalizeSheet -------------------- *)

\* obj[key] = i < r.length ? r[i] : null, for i = 0 .. headers.length - 1:
\* a later column of the same name overwrites the earlier one
ObjectOf(headers, r) ==
  [k \in {headers[i] : i \in 1..Len(headers)} |->
     LET i == CHOOSE j \in 1..Len(headers) :
                /\ headers[j] = k
                /\ \A m \in (j + 1)..Len(headers) : headers[m] # k
     IN IF i <= Len(r) THEN r[i] ELSE NullCell]

toObjects(headers, rows) == [i \in 1..Len(rows) |-> ObjectOf(headers, rows[i])]

\* Object.keys(rowsRaw[0]): the distinct names in the order of first insertion
RECURSIVE KeysFrom(_, _)
KeysFrom(headers, i) ==
  IF i > Len(headers) THEN <<>>
  ELSE IF \E j \in 1..(i - 1) : headers[j] = headers[i]
       THEN KeysFrom(headers, i + 1)
       ELSE <<headers[i]>> \o KeysFrom(headers, i + 1)

KeysOf(headers) == KeysFrom(headers, 1)

\* the names in a list of keys
KeySet(keys) == {keys[i] : i \in 1..Len(keys)}

\* keys.find(k => ...): the first key among those that match, or undefined
Find(keys, matching) ==
  IF \E i \in 1..Len(keys) : keys[i] \in matching
  THEN [found |-> TRUE,
        key |-> keys[CHOOSE i \in 1..Len(keys) :
                       keys[i] \in matching /\ \A j \in 1..(i - 1) : keys[j] \notin matching]]
  ELSE [found |-> FALSE, key |-> <<>>]

\* /^t$/i
IsT(k) == Equals(k, <<"t">>)
\* /^time$/i
IsTime(k) == Equals(k, <<"t","i","m","e">>)
\* /timestamp/i
HasTimestamp(k) == Contains(k, <<"t","i","m","e","s","t","a","m","p">>)
\* /(time).*?(s|sec|seconds)/i: "time", and an "s" anywhere after it
IsTimeWithUnit(k) ==
  \E i \in 1..Len(k) :
    /\ MatchAt(k, <<"t","i","m","e">>, i)
    /\ \E j \in (i + 4)..Len(k) : ToLower(k[j]) = "s"
\* /(ms|millisecond)/i
IsMs(k) ==
  \/ Contains(k, <<"m","s">>)
  \/ Contains(k, <<"m","i","l","l","i","s","e","c","o","n","d">>)
\* /^frame(s)?$/i.test(k) || /frame ?index/i.test(k)
IsFrame(k) ==
  \/ Equals(k, <<"f","r","a","m","e">>)
  \/ Equals(k, <<"f","r","a","m","e","s">>)
  \/ Contains(k, <<"f","r","a","m","e","i","n","d","e","x">>)
  \/ Contains(k, <<"f","r","a","m","e"," ","i","n","d","e","x">>)
\* /^t$|^time$|timestamp|ms|millisecond/i: names never copied as values
IsTimeLike(k) == IsT(k) \/ IsTime(k) \/ HasTimestamp(k) \/ IsMs(k)

\* the four alternatives of timeKey, each a keys.find of its own
FindT(keys) == Find(keys, {nm \in KeySet(keys) : IsT(nm)})
FindTime(keys) == Find(keys, {nm \in KeySet(keys) : IsTime(nm)})
FindTimestamp(keys) == Find(keys, {nm \in KeySet(keys) : HasTimestamp(nm)})
FindTimeWithUnit(keys) == Find(keys, {nm \in KeySet(keys) : IsTimeWithUnit(nm)})

\* a column named time is preferred to a column named t
TimeKeyTimeFirst(keys) ==
  IF FindTime(keys).found THEN FindTime(keys)
  ELSE IF FindT(keys).found THEN FindT(keys)
  ELSE IF FindTimestamp(keys).found THEN FindTimestamp(keys)
  ELSE FindTimeWithUnit(keys)

\* the four alternatives of timeKey, in the order of the ?? chain
TimeKey(keys) ==
  IF FindT(keys).found THEN FindT(keys)
  ELSE IF FindTime(keys).found THEN FindTime(keys)
  ELSE IF FindTimestamp(keys).found THEN FindTimestamp(keys)
  ELSE FindTimeWithUnit(keys)

MsKey(keys) == Find(keys, {nm \in KeySet(keys) : IsMs(nm)})
FrameKey(keys) == Find(keys, {nm \in KeySet(keys) : IsFrame(nm)})

\* const num = (v) => ...: a number as it is, null as NaN, a string through
\* Number(String(v).trim().replace(/,/g, ""))
Num(c) ==
  IF c.kind = "num" THEN Val(c.n)
  ELSE IF c.kind = "null" THEN NaN
  ELSE NumberOfString(StripCommas(Trim(c.s)))

\* typeof x === "number" ? x : Number(x), where Number(null) is 0
NumberOf(c) ==
  IF c.kind = "num" THEN Val(c.n)
  ELSE IF c.kind = "null" THEN Val(0)
  ELSE NumberOfString(c.s)

\* a finite value v exceeds the integer k
Exceeds(v, k) == IsFinite(v) /\ v.num > k * v.den


RECURSIVE SumAbsDiffs(_)
SumAbsDiffs(vals) ==
  IF Len(vals) < 2 THEN 0
  ELSE (IF vals[2] >= vals[1] THEN vals[2] - vals[1] ELSE vals[1] - vals[2])
       + SumAbsDiffs(Tail(vals))

\* averageDelta(rows, key): the mean absolute difference of the successive
\* finite values of the column (whole numbers here), NaN under two values
averageDelta(rows, key) ==
  LET finite == SelectSeq(rows, LAMBDA r : IsFinite(NumberOf(r[key])))
      vals == [i \in 1..Len(finite) |-> NumberOf(finite[i][key]).num]
  IN IF Len(vals) < 2 THEN NaN
     ELSE [nan |-> FALSE, num |-> SumAbsDiffs(vals), den |-> Len(vals) - 1]

\* function normalizeSheet(rowsRaw, fpsGuess = 120): the default parameter
DefaultFps == 120
\* f / (fpsGuess || 120): the divisor of a zero frame rate
FallbackFps == 120

\* the frame-rate argument as the function body sees it
FpsParam(h) == IF h.given THEN h.value ELSE DefaultFps
FrameDivisor(h) == IF FpsParam(h) # 0 THEN FpsParam(h) ELSE FallbackFps

\* Date.parse of a string cell.  No text of the alphabet used here is in a
\* date format, and Date.parse of such text is NaN.
DateParse(c) == NaN

\* typeof v === "number" ? v : Date.parse(v)
TimestampOf(c) == IF c.kind = "num" THEN Val(c.n) ELSE DateParse(c)

\* let ts0 = 0; if (!timeKey && keys.some(/timestamp/i)) { ... }
Ts0(rows, keys) ==
  IF ~TimeKey(keys).found /\ FindTimestamp(keys).found
  THEN LET k == FindTimestamp(keys).key
           nonNull == SelectSeq(rows, LAMBDA r : r[k].kind # "null")
           p == IF nonNull = <<>> THEN NaN ELSE TimestampOf(nonNull[1][k])
       IN IF IsFinite(p) THEN p.num ELSE 0
  ELSE 0

\* !!msKey || (Number.isFinite(n) && n > 50 && averageDelta(rowsRaw, timeKey) > 10)
\* evaluated for the row whose time cell is n
LooksMs(rows, keys, n) ==
  \/ MsKey(keys).found
  \/ /\ Exceeds(n, 50)
     /\ Exceeds(averageDelta(rows, TimeKey(keys).key), 10)

\* the ramp runs over the number of rows instead of the last index
RampOverCount(i, n) ==
  IF n > 1 THEN [nan |-> FALSE, num |-> i, den |-> n] ELSE Val(0)

\* rowsRaw.length > 1 ? i / (rowsRaw.length - 1) : 0   (i 0-based)
Ramp(i, n) ==
  IF n > 1 THEN [nan |-> FALSE, num |-> i, den |-> n - 1] ELSE Val(0)

\* tSec of the row at 0-based index i before the fallback: the if / else if
\* chain on timeKey, frameKey and a timestamp column
InferredTime(rows, keys, fps, i) ==
  LET r == rows[i + 1]
  IN IF TimeKey(keys).found
     THEN LET n == Num(r[TimeKey(keys).key])
          IN IF IsFinite(n)
             THEN (IF LooksMs(rows, keys, n) THEN DivBy(n, 1000) ELSE n)
             ELSE NaN
     ELSE IF FrameKey(keys).found
     THEN LET f == Num(r[FrameKey(keys).key])
          IN IF IsFinite(f) THEN DivBy(f, FrameDivisor(fps)) ELSE NaN
     ELSE IF FindTimestamp(keys).found
     THEN LET ts == TimestampOf(r[FindTimestamp(keys).key])
          IN IF IsFinite(ts)
             THEN DivBy([ts EXCEPT !.num = ts.num - Ts0(rows, keys) * ts.den], 1000)
             ELSE NaN
     ELSE NaN

\* if (!Number.isFinite(tSec)) tSec = the ramp
TimeOfRow(rows, keys, fps, i) ==
  IF IsFinite(InferredTime(rows, keys, fps, i))
  THEN InferredTime(rows, keys, fps, i)
  ELSE Ramp(i, Len(rows))

\* the for (const k of keys) loop: the keys the row receives besides t
ValueKeys(r, keys) ==
  {k \in {keys[j] : j \in 1..Len(keys)} :
     /\ ~(TimeKey(keys).found /\ k = TimeKey(keys).key)
     /\ ~(FrameKey(keys).found /\ k = FrameKey(keys).key)
     /\ ~IsTimeLike(k)
     /\ IsFinite(Num(r[k]))}

\* the row built for the data row at 0-based index i; src keeps that index
RowOf(rows, keys, fps, i) ==
  [t |-> TimeOfRow(rows, keys, fps, i),
   vals |-> [k \in ValueKeys(rows[i + 1], keys) |-> Num(rows[i + 1][k])],
   src |-> i]

\* if (Object.keys(row).some((k) => k !== "t")) out.push(row)
normalizeSheet(rowsRaw, keys, fps) ==
  LET all == [i \in 1..Len(rowsRaw) |-> RowOf(rowsRaw, keys, fps, i - 1)]
  IN SelectSeq(all, LAMBDA row : DOMAIN row.vals # {})

(* ------------------------- the sheets considered ----------------------- *)

\* the longest run of data rows, and of title rows above the header
MaxDataRows == 5
MaxExtraRows == 1

\* the column names considered
Name ==
  [t |-> <<"t">>,
   time |-> <<"T","i","m","e">>,
   timestamp |-> <<"T","i","m","e","s","t","a","m","p">>,
   timeUnit |-> <<"T","i","m","e"," ","(","s",")">>,
   frame |-> <<"F","r","a","m","e">>,
   ms |-> <<"m","s">>,
   arms |-> <<"A","r","m","s">>,
   x |-> <<"X">>,
   y |-> <<"Y">>,
   x2 |-> <<"X"," ","(","2",")">>,
   blank |-> <<>>]

\* the cell of a column at the 0-based data row i, by the kind of column:
\* millisecond stamps 0, 16, 33, 49, 66, ...; seconds 0, 1, 2, ...; epoch
\* milliseconds; measurements; blank strings; and a column that cycles
\* through a number written with a thousands separator, a blank string, an
\* empty cell, a word and a plain number
CellOf(profile, i) ==
  CASE profile = "ms" -> NumCell((33 * i) \div 2)
    [] profile = "sec" -> NumCell(i)
    [] profile = "epoch" -> NumCell(1000 + 1000 * i)
    [] profile = "meas" -> NumCell(5 + 2 * i)
    [] profile = "blank" -> StrCell(<<" ">>)
    [] profile = "mixed" ->
         CASE i % 5 = 0 -> StrCell(<<"1",",","2","0","0">>)
           [] i % 5 = 1 -> StrCell(<<" ">>)
           [] i % 5 = 2 -> NullCell
           [] i % 5 = 3 -> StrCell(<<"a","b","c">>)
           [] OTHER -> NumCell(3)

Column(name, profile) == [name |-> name, profile |-> profile]

\* rows above a header: a title, a blank row, a title with a note beside it
PreambleRow ==
  [title |-> <<StrCell(<<"T","r","i","a","l"," ","A">>)>>,
   blank |-> <<StrCell(<<>>), StrCell(<<>>)>>,
   notes |-> <<StrCell(<<"T","r","i","a","l"," ","A">>), StrCell(<<"r","a","w">>)>>]

\* the header row and n data rows of the columns cols
SheetOf(cols, n) ==
  <<[j \in 1..Len(cols) |-> StrCell(cols[j].name)]>>
  \o [i \in 1..n |-> [j \in 1..Len(cols) |-> CellOf(cols[j].profile, i - 1)]]

\* three-column sheets that start with their header, of 1, 2 or
\* MaxDataRows data rows. The first column: a name of each kind with stamps
\* in milliseconds or in seconds, a timestamp in epoch milliseconds, and
\* mixed cells. The second column: every name over seconds, and a few other
\* contents. The third column: measurements, mixed cells or blank strings
ColumnSheets ==
  LET FirstColumns ==
        {Column(n, p) : n \in {Name.t, Name.time, Name.timestamp, Name.timeUnit, Name.frame, Name.x},
                        p \in {"ms", "sec"}}
        \cup {Column(Name.timestamp, "epoch"), Column(Name.t, "mixed"), Column(Name.x, "mixed")}
      SecondColumns ==
        {Column(Name[f], "sec") : f \in DOMAIN Name \ {"x", "x2"}}
        \cup {Column(Name.time, "ms"), Column(Name.y, "mixed"), Column(Name.frame, "meas")}
      ValueColumns ==
        {Column(Name.x, "meas"), Column(Name.arms, "meas"),
         Column(Name.x, "mixed"), Column(Name.y, "mixed"), Column(Name.x, "blank")}
  IN {SheetOf(<<a, b, c>>, n) :
        a \in FirstColumns, b \in SecondColumns, c \in ValueColumns,
        n \in {1, 2, MaxDataRows}}

\* rows above the header: none, a title, a title with a note beside it, a
\* title and a blank row, then up to MaxExtraRows more title rows, or
\* enough titles to fill the scan
Preambles ==
  {<<>>, <<PreambleRow.title>>, <<PreambleRow.notes>>, <<PreambleRow.title, PreambleRow.blank>>,
   [i \in 1..ScanLimit |-> PreambleRow.title]}
  \cup {<<PreambleRow.title, PreambleRow.blank>> \o [i \in 1..k |-> PreambleRow.title] : k \in 1..MaxExtraRows}

\* the header rows of the sheets of measurements: four names out of X, Y
\* and nothing, two to three out of X, t and nothing, or three out of X and
\* X (2)
HeaderRows ==
  [1..4 -> {Name.x, Name.y, Name.blank}]
  \cup UNION {[1..w -> {Name.x, Name.t, Name.blank}] : w \in 2..3}
  \cup [1..3 -> {Name.x, Name.x2}]

\* sheets of measurements with one data row or none, under a preamble
NamedSheets ==
  {p \o SheetOf([j \in 1..Len(ns) |-> Column(ns[j], "meas")], n) :
     p \in Preambles, ns \in HeaderRows, n \in {0, 1}}

\* the frame-rate argument: omitted, 0, or a rate
FpsOmitted == [given |-> FALSE, value |-> 0]
FpsGiven(v) == [given |-> TRUE, value |-> v]
FpsHints == {FpsOmitted, FpsGiven(0), FpsGiven(60)}

\* the calls considered: a table and the frame-rate argument, which is
\* varied for the sheets that have a frame column
SheetInputs ==
  {<<tbl, FpsGiven(FPS)>> : tbl \in ColumnSheets \cup NamedSheets}
  \cup {<<tbl, h>> : tbl \in {s \in ColumnSheets : \E j \in 1..Len(s[1]) : s[1][j].s = Name.frame}, h \in FpsHints}

(* ------------------------ parsing one sheet ---------------------------- *)

InitSheet ==
  /\ time = 0
  /\ duration = 0
  /\ playing = TRUE
  /\ speed = SpeedScale
  /\ snapFrames = TRUE
  /\ subFrameAcc = 0
  /\ jsonDuration = 0
  /\ lastTsNull = TRUE
  /\ last = [op |-> "init", arg |-> 0, prev |-> 0]
  /\ \E in \in SheetInputs : table = in[1] /\ fpsGuess = in[2]
  /\ sheetPc = "table"
  /\ extract = [bestIdx |-> 0, headers |-> <<>>, dataRows |-> <<>>]
  /\ cleaned = <<>>
  /\ LoadIdle
  /\ advance = 0
  /\ carry = CarryIdle
  /\ chart = ChartIdle

playbackVars == <<time, duration, playing, speed, snapFrames, subFrameAcc,
                  jsonDuration, lastTsNull, last>>
\* what parsing a sheet leaves alone
nonSheetVars == <<playbackVars, loadVars, advance, carry, chart>>

\* const { headers, dataRows } = detectHeaderAndExtract(table), for a table
\* that is not empty
DetectHeader ==
  /\ sheetPc = "table"
  /\ Len(table) > 0
  /\ extract' = detectHeaderAndExtract(table)
  /\ sheetPc' = "extracted"
  /\ UNCHANGED <<table, fpsGuess, cleaned, nonSheetVars>>

\* if (!headers.length || dataRows.length === 0) continue
SkipSheet ==
  /\ sheetPc = "extracted"
  /\ Len(extract.headers) = 0 \/ Len(extract.dataRows) = 0
  /\ sheetPc' = "skipped"
  /\ UNCHANGED <<table, fpsGuess, extract, cleaned, nonSheetVars>>

\* const rowsRaw = toObjects(headers, dataRows);
\* const cleaned = normalizeSheet(rowsRaw, fpsGuess);
\* if (cleaned.length && cleaned.some(a key other than t)) out[sheetName] = cleaned
NormalizeRows ==
  /\ sheetPc = "extracted"
  /\ Len(extract.headers) > 0 /\ Len(extract.dataRows) > 0
  /\ cleaned' = normalizeSheet(toObjects(extract.headers, extract.dataRows),
                               KeysOf(extract.headers), fpsGuess)
  /\ sheetPc' = IF cleaned' # <<>> /\ \E i \in 1..Len(cleaned') : DOMAIN cleaned'[i].vals # {}
                THEN "included" ELSE "dropped"
  /\ UNCHANGED <<table, fpsGuess, extract, nonSheetVars>>

NextSheet == DetectHeader \/ SkipSheet \/ NormalizeRows

SpecSheet == InitSheet /\ [][NextSheet]_vars

(* ------------------------------ claims --------------------------------- *)

\* the score of a row as C11 states it
C11_StatedScore(row) ==
  LET strings == Cardinality({i \in 1..Len(row) : row[i].kind = "str" /\ Trim(row[i].s) # <<>>})
  IN strings + (IF HasTime(row) THEN 3 ELSE 0) + (IF HasFrame(row) THEN 2 ELSE 0)
             - (IF strings <= 1 THEN 3 ELSE 0)

\* C11: the header row is, among the first 20 rows at most, the row of
\* lowest index with the greatest score when some row scores above -1, and
\* row 0 otherwise; the data rows are exactly the rows after the header row.
C11_HeaderDetection ==
  sheetPc # "table" =>
    LET scanned == 1..(IF Len(table) < 20 THEN Len(table) ELSE 20)
        best == extract.bestIdx + 1
    IN /\ IF \E i \in scanned : C11_StatedScore(table[i]) > -1
          THEN /\ best \in scanned
               /\ \A i \in scanned : C11_StatedScore(table[i]) <= C11_StatedScore(table[best])
               /\ \A i \in scanned : i < best => C11_StatedScore(table[i]) < C11_StatedScore(table[best])
          ELSE best = 1
       /\ extract.dataRows = SubSeq(table, best + 1, Len(table))

\* a title row, a blank row and a header with a t column: the header is row 2
\* and one data row follows
C11_Witness ==
  /\ sheetPc = "extracted"
  /\ Len(table) = 4
  /\ table[1] = PreambleRow.title
  /\ table[2] = PreambleRow.blank
  /\ HasTime(table[3])
  /\ extract.bestIdx = 2
  /\ Len(extract.dataRows) = 1

\* the name of the header cell at column i (counted from 1) before the
\* duplicates are numbered, as C12 states it
C12_StatedName(row, i) ==
  IF Trim(StringOf(row[i])) = <<>>
  THEN <<"E","M","P","T","Y"," ">> \o DigitsOf(i)
  ELSE Trim(StringOf(row[i]))

\* C12: the headers are as many as the cells of the header row and in their
\* order; an empty cell at column index i is named EMPTY <i+1>; the first
\* occurrence of a name is left as it is and its k-th occurrence, k >= 2,
\* becomes 'name (k)'.
C12_Dedupe ==
  sheetPc # "table" =>
    LET row == table[extract.bestIdx + 1]
        k(i) == Cardinality({j \in 1..i : C12_StatedName(row, j) = C12_StatedName(row, i)})
    IN /\ Len(extract.headers) = Len(row)
       /\ \A i \in 1..Len(row) :
            extract.headers[i] =
              IF k(i) = 1 THEN C12_StatedName(row, i)
              ELSE C12_StatedName(row, i) \o <<" ","(">> \o DigitsOf(k(i)) \o <<")">>

\* the header X, X, Y, X has become X, X (2), Y, X (3)
C12_Witness ==
  /\ sheetPc = "extracted"
  /\ Len(table[extract.bestIdx + 1]) = 4
  /\ [i \in 1..4 |-> table[extract.bestIdx + 1][i].s] = <<Name.x, Name.x, Name.y, Name.x>>
  /\ extract.headers = <<Name.x, Name.x \o <<" ","(","2",")">>, Name.y, Name.x \o <<" ","(","3",")">>>>

\* the sheet has been normalized
Normalized == sheetPc \in {"included", "dropped"}
\* the keys and the row objects normalizeSheet was given
SheetKeys == KeysOf(extract.headers)
SheetRows == toObjects(extract.headers, extract.dataRows)
\* two finite numbers are equal
SameNumber(a, b) == IsFinite(a) /\ IsFinite(b) /\ a.num * b.den = b.num * a.den

\* the millisecond heuristic as C13 states it: a sibling column matches
\* ms / millisecond, or the time column's successive differences average
\* above 10 and it holds a value above 50
C13_HeuristicApplies ==
  /\ TimeKey(SheetKeys).found
  /\ \/ \E i \in 1..Len(SheetKeys) :
          SheetKeys[i] # TimeKey(SheetKeys).key /\ IsMs(SheetKeys[i])
     \/ /\ Exceeds(averageDelta(SheetRows, TimeKey(SheetKeys).key), 10)
        /\ \E i \in 1..Len(SheetRows) : Exceeds(Num(SheetRows[i][TimeKey(SheetKeys).key]), 50)

\* C13: when the millisecond heuristic applies to a sheet, the time of
\* every row of that sheet is its time cell divided by 1000.
C13_MsEveryRow ==
  (Normalized /\ C13_HeuristicApplies) =>
    \A i \in 1..Len(cleaned) :
      LET n == Num(SheetRows[cleaned[i].src + 1][TimeKey(SheetKeys).key])
      IN IsFinite(n) => SameNumber(cleaned[i].t, DivBy(n, 1000))

\* a numeric cell as C14 and C17 mean it: a number, or a string that holds
\* a numeral once blanks around it and commas in it are taken away
IsNumericCell(c) ==
  \/ c.kind = "num"
  \/ /\ c.kind = "str"
     /\ Trim(StripCommas(c.s)) # <<>>
     /\ \A i \in 1..Len(Trim(StripCommas(c.s))) : IsDigit(Trim(StripCommas(c.s))[i])

\* the rows of cleaned made from the data row at 0-based index i
RowsFrom(i) == {j \in 1..Len(cleaned) : cleaned[j].src = i}

\* C14: a cell that is empty, blank or a non-numeric string gives its row no
\* key, and a data row whose cells outside the time and frame columns are
\* all of that kind is left out of the result.
C14_BlankGivesNoKey ==
  Normalized =>
    \A i \in 1..Len(SheetRows) :
      /\ \A n \in 1..Len(SheetKeys) :
           ~IsNumericCell(SheetRows[i][SheetKeys[n]]) =>
             \A j \in RowsFrom(i - 1) : SheetKeys[n] \notin DOMAIN cleaned[j].vals
      /\ (\A n \in 1..Len(SheetKeys) :
            \/ TimeKey(SheetKeys).found /\ SheetKeys[n] = TimeKey(SheetKeys).key
            \/ FrameKey(SheetKeys).found /\ SheetKeys[n] = FrameKey(SheetKeys).key
            \/ ~IsNumericCell(SheetRows[i][SheetKeys[n]]))
         => RowsFrom(i - 1) = {}

\* the time source of a sheet by the stated order of precedence: a column
\* named t, else one named time, else one whose name contains timestamp,
\* else (when withUnit) one whose name has time and an s after it, else a
\* frame column, else the ramp
StatedSource(keys, withUnit) ==
  IF FindT(keys).found THEN [kind |-> "column", key |-> FindT(keys).key]
  ELSE IF FindTime(keys).found THEN [kind |-> "column", key |-> FindTime(keys).key]
  ELSE IF FindTimestamp(keys).found
       THEN [kind |-> "column", key |-> FindTimestamp(keys).key]
  ELSE IF withUnit /\ FindTimeWithUnit(keys).found
       THEN [kind |-> "column", key |-> FindTimeWithUnit(keys).key]
  ELSE IF FrameKey(keys).found THEN [kind |-> "frame", key |-> FrameKey(keys).key]
  ELSE [kind |-> "ramp", key |-> <<>>]

\* the frame rate that divides a frame number: the hint, 120 when it is 0
\* or omitted
StatedFrameRate == IF fpsGuess.given /\ fpsGuess.value # 0 THEN fpsGuess.value ELSE 120

\* the row cleaned[j] has its time from the stated source: the cell of the
\* time column in seconds or in milliseconds, the frame number over the
\* frame rate, the ramp when there is no source, and also the ramp when the
\* row's cell in the source column is not a number
TimeFromSource(j, source) ==
  LET i == cleaned[j].src
      n == Num(SheetRows[i + 1][source.key])
      ramp == IF Len(SheetRows) > 1 THEN [nan |-> FALSE, num |-> i, den |-> Len(SheetRows) - 1]
              ELSE Val(0)
  IN IF source.kind = "ramp" \/ ~IsFinite(n) THEN SameNumber(cleaned[j].t, ramp)
     ELSE IF source.kind = "frame" THEN SameNumber(cleaned[j].t, DivBy(n, StatedFrameRate))
     ELSE SameNumber(cleaned[j].t, n) \/ SameNumber(cleaned[j].t, DivBy(n, 1000))

\* C15 as stated: the time of every row comes from the first present of
\* t, time, a timestamp column, the frame column, the ramp.
C15_Original ==
  Normalized => \A j \in 1..Len(cleaned) : TimeFromSource(j, StatedSource(SheetKeys, FALSE))

\* C15: the time of every row comes from the first present of a column
\* named t, a column named time, a column whose name contains timestamp, a
\* column whose name contains time followed later by an s, the frame column
\* (frame number over the frame-rate hint, 120 when that is 0 or omitted),
\* and the ramp; a row whose cell in that column is not a number gets the
\* ramp value.
C15_TimeSource ==
  Normalized => \A j \in 1..Len(cleaned) : TimeFromSource(j, StatedSource(SheetKeys, TRUE))

\* a sheet with a 'Time (s)' column and a frame column and none named t,
\* time or timestamp: a row has the time of its 'Time (s)' cell, which is
\* not its frame number over the frame rate
C15_Witness ==
  /\ Normalized
  /\ StatedSource(SheetKeys, FALSE).kind = "frame"
  /\ FindTimeWithUnit(SheetKeys).found
  /\ \E j \in 1..Len(cleaned) :
       LET r == SheetRows[cleaned[j].src + 1]
       IN /\ SameNumber(cleaned[j].t, Num(r[FindTimeWithUnit(SheetKeys).key]))
          /\ IsFinite(Num(r[FrameKey(SheetKeys).key]))
          /\ ~SameNumber(cleaned[j].t, DivBy(Num(r[FrameKey(SheetKeys).key]), StatedFrameRate))

\* C16: when no column is named t or time and a column's name contains
\* timestamp, the time of a row is the number of seconds from the first
\* value of that column that is not null, (value - first) / 1000, so the
\* time of the row that holds the first value is 0.
C16_TimestampElapsed ==
  (/\ Normalized
   /\ ~FindT(SheetKeys).found
   /\ ~FindTime(SheetKeys).found
   /\ FindTimestamp(SheetKeys).found) =>
    LET k == FindTimestamp(SheetKeys).key
        nonNull == SelectSeq(SheetRows, LAMBDA r : r[k].kind # "null")
    IN \A j \in 1..Len(cleaned) :
         LET c == SheetRows[cleaned[j].src + 1][k]
         IN (c.kind = "num" /\ nonNull[1][k].kind = "num") =>
              SameNumber(cleaned[j].t, DivBy(Val(c.n - nonNull[1][k].n), 1000))

\* C17: for every column other than the chosen time column and the frame
\* column, whatever its name, and every data row: the row made from it has
\* the column's key, holding the parsed number, exactly when the cell parses
\* to a finite number.
C17_ValueCoercion ==
  Normalized =>
    \A n \in 1..Len(SheetKeys) : \A i \in 1..Len(SheetRows) :
      LET k == SheetKeys[n]
          v == Num(SheetRows[i][k])
      IN (/\ ~(TimeKey(SheetKeys).found /\ k = TimeKey(SheetKeys).key)
          /\ ~(FrameKey(SheetKeys).found /\ k = FrameKey(SheetKeys).key)) =>
           (IsFinite(v) <=>
              \E j \in RowsFrom(i - 1) :
                k \in DOMAIN cleaned[j].vals /\ SameNumber(cleaned[j].vals[k], v))

\* the ramp holds for every row of cleaned: the row made from the data row
\* at index i has t = i / (n - 1), n the number of data rows, and t = 0
\* when n <= 1
RampEverywhere ==
  \A j \in 1..Len(cleaned) :
    IF Len(extract.dataRows) <= 1 THEN cleaned[j].t.num = 0
    ELSE cleaned[j].t.num * (Len(extract.dataRows) - 1) = cleaned[j].src * cleaned[j].t.den

\* C18 as stated: a sheet without a t, time, timestamp or frame column has
\* the ramp as the time of its rows.
C18_Original ==
  (/\ Normalized
   /\ \A n \in 1..Len(SheetKeys) :
        ~IsT(SheetKeys[n]) /\ ~IsTime(SheetKeys[n])
        /\ ~HasTimestamp(SheetKeys[n]) /\ ~IsFrame(SheetKeys[n])) => RampEverywhere

\* C18: a sheet without a t, time or timestamp column, without a column
\* whose name has time and an s after it, and without a frame column has
\* the ramp as the time of its rows: t = i / (n - 1) for the data row at
\* index i of n, and 0 when n <= 1.
C18_Ramp ==
  (/\ Normalized
   /\ \A n \in 1..Len(SheetKeys) :
        ~IsT(SheetKeys[n]) /\ ~IsTime(SheetKeys[n]) /\ ~HasTimestamp(SheetKeys[n])
        /\ ~IsTimeWithUnit(SheetKeys[n]) /\ ~IsFrame(SheetKeys[n])) => RampEverywhere

\* five data rows under a header without time or frame names have the
\* times 0, 1/4, 1/2, 3/4, 1
C18_Witness ==
  /\ Normalized
  /\ \A n \in 1..Len(SheetKeys) :
       ~Contains(SheetKeys[n], <<"t","i","m","e">>) /\ ~IsT(SheetKeys[n])
       /\ ~Contains(SheetKeys[n], <<"f","r","a","m","e">>)
  /\ Len(extract.dataRows) = 5
  /\ Len(cleaned) = 5
  /\ \A j \in 1..5 : cleaned[j].t = [nan |-> FALSE, num |-> j - 1, den |-> 4]

(* =================== the clock on a long clip ========================== *)
(* Ticks on a clip longer than any single advance, so that a tick folds    *)
(* the time back at most once and the distance it moved the time forward   *)
(* can be read off the state.                                              *)

\* the clip's length in frames
LongClipFrames == 13

InitLong ==
  /\ time = 0
  /\ duration = LongClipFrames * step
  /\ playing = TRUE
  /\ speed \in SpeedInputs \cup {SpeedScale}
  /\ snapFrames \in BOOLEAN
  /\ subFrameAcc = 0
  /\ jsonDuration = 0
  /\ lastTsNull = TRUE
  /\ last = [op |-> "init", arg |-> 0, prev |-> 0]
  /\ SheetIdle
  /\ LoadIdle
  /\ advance = 0
  /\ carry = CarryIdle
  /\ chart = ChartIdle

\* one animation frame, with the forward distance noted: next - prev, which
\* is time' - time, plus the duration when the modulo folded the time back
TickMeasured(dtRaw) ==
  /\ Tick(dtRaw)
  /\ advance' = time' - time + (IF last'.prev = 1 THEN duration ELSE 0)
  /\ UNCHANGED <<sheetVars, loadVars, carry, chart>>

NextLong ==
  \/ \E dtRaw \in DtRawInputs : TickMeasured(dtRaw)
  \/ (\E x \in SpeedInputs : SetSpeed(x)) /\ UNCHANGED <<sheetVars, loadVars, advance, carry, chart>>
  \/ ToggleSnapFrames /\ UNCHANGED <<sheetVars, loadVars, advance, carry, chart>>

SpecLong == InitLong /\ [][NextLong]_vars

\* 50 ms of simulated time
FiftyMs == (50 * UnitsPerSecond) \div 1000

\* C20 as stated: a tick moves the time forward by at most 50 ms.
C20_Original == last.op = "tick" => advance <= FiftyMs

\* C20: a tick moves the time forward by at most 50 ms times the speed
\* multiplier it applied (at most 2.0), and when frames are quantized by at
\* most that plus the remainder carried in the accumulator, which is less
\* than one frame; it never moves the time backward.
C20_TickAdvance ==
  last.op = "tick" =>
    /\ advance >= 0
    /\ advance * SpeedScale
         <= FiftyMs * last.arg + (IF snapFrames THEN (step - 1) * SpeedScale ELSE 0)
    /\ last.arg <= MaxSpeed

\* a tick at speed 2.0 has moved the time forward by 100 ms
C20_Witness ==
  /\ last.op = "tick"
  /\ last.arg = MaxSpeed
  /\ advance = 2 * FiftyMs

(* ============================ the loaders ============================== *)
(* ThreeView.tsx: the manifest loader effect, the effect that loads a      *)
(* session's model and spreadsheet, and the admin uploads.  A model or a   *)
(* set of chart rows is named by the player and session it was fetched     *)
(* for.  Requests stay in flight until their response is handled.          *)

\* at most this many requests of a kind are in flight
MaxInFlight == 2

Sessions == {"s1", "s2"}
\* m.sessions of the manifest of player p
SessionsOf(p) == IF p = "A" THEN {"s1", "s2"} ELSE {"s1"}
\* m.defaultSession ?? m.sessions?.[0]
DefaultSession(p) == "s1"

Owner(p, s) == [player |-> p, session |-> s]
\* a file the admin picked
Upload == [player |-> "upload", session |-> "upload"]

\* buildSeries(rows, selectedChannel).dur of the rows of each origin
SignalDurationOf(owner) ==
  IF owner = NoOwner THEN 0
  ELSE IF owner.session = "s2" THEN MaxSignalDuration * SignalScale
  ELSE SignalScale

\* the component mounts: loadManifest(playerName) is under way, the session
\* is the one named in the URL, if any
InitLoad ==
  /\ time = 0
  /\ duration = 0
  /\ playing = TRUE
  /\ speed = SpeedScale
  /\ snapFrames = TRUE
  /\ subFrameAcc = 0
  /\ jsonDuration = 0
  /\ lastTsNull = TRUE
  /\ last = [op |-> "init", arg |-> 0, prev |-> 0]
  /\ SheetIdle
  /\ advance = 0
  /\ carry = CarryIdle
  /\ chart = ChartIdle
  /\ playerName = InitialPlayer
  /\ manifest = Null
  /\ session \in {Null} \cup Sessions
  /\ fbxUrl = NoOwner
  /\ rowsBySheet = NoOwner
  /\ manifestLoads = {[player |-> InitialPlayer, cancelled |-> FALSE]}
  /\ excelLoads = {}
  /\ loadEvent = "mount"

\* the session effect with the values p, m, s of playerName, manifest and
\* session after the render: if (!manifest || !session) return; otherwise
\* setFbxUrl, setPlaying(true), setTime(0) and the spreadsheet request
SessionEffect(p, m, s) ==
  IF m # Null /\ s # Null
  THEN /\ Cardinality(excelLoads \cup {Owner(p, s)}) <= MaxInFlight
       /\ fbxUrl' = Owner(p, s)
       /\ excelLoads' = excelLoads \cup {Owner(p, s)}
       /\ LoadClip
  ELSE UNCHANGED <<fbxUrl, excelLoads, playbackVars>>

\* the player select: setPlayerName(p).  The manifest effect's cleanup sets
\* cancelled on the request before and loadManifest(p) starts; the session
\* effect runs again, playerName being one of its dependencies
SelectPlayer(p) ==
  /\ p # playerName
  /\ playerName' = p
  /\ manifestLoads' = {[l EXCEPT !.cancelled = TRUE] : l \in manifestLoads}
                        \cup {[player |-> p, cancelled |-> FALSE]}
  /\ Cardinality(manifestLoads') <= MaxInFlight
  /\ SessionEffect(p, manifest, session)
  /\ loadEvent' = "selectPlayer"
  /\ UNCHANGED <<manifest, session, rowsBySheet, sheetVars, advance, carry, chart>>

\* the session select: setSession(s), s one of the manifest's sessions
SelectSession(s) ==
  /\ manifest # Null
  /\ s \in SessionsOf(manifest)
  /\ s # session
  /\ session' = s
  /\ SessionEffect(playerName, manifest, s)
  /\ loadEvent' = "selectSession"
  /\ UNCHANGED <<playerName, manifest, rowsBySheet, manifestLoads, sheetVars, advance, carry, chart>>

\* the manifest request l is answered with a manifest: if (cancelled) return;
\* setManifest(m), setSession(prev kept if listed, else the default)
ManifestOk(l) ==
  /\ l \in manifestLoads
  /\ manifestLoads' = manifestLoads \ {l}
  /\ IF l.cancelled
     THEN UNCHANGED <<manifest, session, fbxUrl, excelLoads, playbackVars>>
     ELSE /\ manifest' = l.player
          /\ session' = IF session # Null /\ session \in SessionsOf(l.player)
                        THEN session ELSE DefaultSession(l.player)
          /\ SessionEffect(playerName, manifest', session')
  /\ loadEvent' = "manifestOk"
  /\ UNCHANGED <<playerName, rowsBySheet, sheetVars, advance, carry, chart>>

\* the manifest request l fails (fetch rejected, status not ok, bad JSON):
\* catch { setManifest(null); setSessions([]); setSession(null) }
ManifestFail(l) ==
  /\ l \in manifestLoads
  /\ manifestLoads' = manifestLoads \ {l}
  /\ manifest' = Null
  /\ session' = Null
  /\ SessionEffect(playerName, manifest', session')
  /\ loadEvent' = "manifestFail"
  /\ UNCHANGED <<playerName, rowsBySheet, sheetVars, advance, carry, chart>>

\* the spreadsheet request l of the session effect gives usable sheets:
\* setRowsBySheet(sets) ... setRows(sets[preferred]), then the series effect
ExcelOk(l) ==
  /\ l \in excelLoads
  /\ excelLoads' = excelLoads \ {l}
  /\ rowsBySheet' = l
  /\ SetJsonDuration(SignalDurationOf(l))
  /\ loadEvent' = "excelOk"
  /\ UNCHANGED <<playerName, manifest, session, fbxUrl, manifestLoads, sheetVars, advance, carry, chart>>

\* the spreadsheet request l fails: the fetch, the parse, or no usable sheet.
\* catch { setRowsBySheet(null); ... setRows(null) }, then the series effect
ExcelFail(l, why) ==
  /\ l \in excelLoads
  /\ excelLoads' = excelLoads \ {l}
  /\ rowsBySheet' = NoOwner
  /\ SetJsonDuration(0)
  /\ loadEvent' = why
  /\ UNCHANGED <<playerName, manifest, session, fbxUrl, manifestLoads, sheetVars, advance, carry, chart>>

\* handleExcelFile with a readable file: the rows are set, setPlaying(true),
\* setTime(0), then the series effect
UploadExcelOk ==
  /\ rowsBySheet' = Upload
  /\ playing' = TRUE
  /\ time' = 0
  /\ jsonDuration' = SignalDurationOf(Upload)
  /\ UNCHANGED <<duration, speed, snapFrames>>
  /\ AccResetEffect(subFrameAcc)
  /\ LoopRestartEffect(lastTsNull)
  /\ Did("uploadExcel", 0, 0)
  /\ loadEvent' = "uploadOk"
  /\ UNCHANGED <<playerName, manifest, session, fbxUrl, manifestLoads, excelLoads,
                 sheetVars, advance, carry, chart>>

\* handleExcelFile with a file that cannot be parsed or has no usable sheet:
\* catch { console.error(...); alert(...) }
UploadExcelFail ==
  /\ loadEvent' = "uploadFail"
  /\ UNCHANGED <<playerName, manifest, session, fbxUrl, rowsBySheet, manifestLoads,
                 excelLoads, playbackVars, sheetVars, advance, carry, chart>>

\* handleFbxFile: setFbxUrl(URL.createObjectURL(file)), setPlaying(true), setTime(0)
UploadFbx ==
  /\ fbxUrl' = Upload
  /\ LoadClip
  /\ loadEvent' = "uploadFbx"
  /\ UNCHANGED <<playerName, manifest, session, rowsBySheet, manifestLoads, excelLoads,
                 sheetVars, advance, carry, chart>>

\* the ways a spreadsheet acquisition fails
ExcelFailures == {"excelFetchFail", "excelParseFail", "noUsableSheets"}

NextLoad ==
  \/ \E p \in Players : SelectPlayer(p)
  \/ \E s \in Sessions : SelectSession(s)
  \/ \E l \in manifestLoads : ManifestOk(l)
  \/ \E l \in manifestLoads : ManifestFail(l)
  \/ \E l \in excelLoads : ExcelOk(l)
  \/ \E l \in excelLoads, why \in ExcelFailures : ExcelFail(l, why)
  \/ UploadExcelOk
  \/ UploadExcelFail
  \/ UploadFbx

SpecLoad == InitLoad /\ [][NextLoad]_vars

\* C19: after a failed acquisition (manifest fetch, spreadsheet fetch,
\* spreadsheet parse, no usable sheet, in a session load or an upload) no
\* chart rows fetched for a player's session are displayed, and the model
\* displayed, if any, is the one of the selected player and session or a
\* file the admin picked.
C19_FailureClearsDisplay ==
  loadEvent \in ExcelFailures \cup {"manifestFail", "uploadFail"} =>
    /\ rowsBySheet \in {NoOwner, Upload}
    /\ fbxUrl \in {NoOwner, Upload, Owner(playerName, session)}

(* ----------------------- the sub-frame accumulator --------------------- *)
(* The playback handlers with the accumulator watched from outside: what   *)
(* each handler found in subFrameAccRef, whether it changed a dependency   *)
(* of the reset effect, and how the time handed to the ticks compares      *)
(* with the time they added to the clock.                                  *)

\* a handler other than a tick: it hands no time to the clock, and what is
\* owed is forgotten when the reset effect runs
Carried ==
  /\ carry' = [before |-> subFrameAcc, changed |-> DepsChanged, delta |-> 0,
               applied |-> 0, owed |-> IF DepsChanged THEN 0 ELSE carry.owed]
  /\ UNCHANGED <<sheetVars, loadVars, advance, chart>>

\* one animation frame: delta = dt * s, and next - prev before the modulo
TickCarried(dtRaw) ==
  LET dtSince == IF lastTsNull THEN 0 ELSE dtRaw
      dt == Min(Max(dtSince, 0), MaxDt)
      u == TickUpdate(time, subFrameAcc, dt)
      delta == (dt * u.s) \div SpeedScale
  IN /\ Tick(dtRaw)
     /\ carry' = [before |-> subFrameAcc, changed |-> FALSE, delta |-> delta,
                  applied |-> u.next - time,
                  owed |-> carry.owed + delta - (u.next - time)]
     /\ UNCHANGED <<sheetVars, loadVars, advance, chart>>

NextCarry ==
  \/ \E dtRaw \in DtRawInputs : TickCarried(dtRaw)
  \/ (\E t \in SliderValues : SliderChange(t)) /\ Carried
  \/ Reset /\ Carried
  \/ (\E x \in SpeedInputs : SetSpeed(x)) /\ Carried
  \/ TogglePlaying /\ Carried
  \/ ToggleSnapFrames /\ Carried
  \/ (\E dur \in Durations : OnReadyDuration(dur)) /\ Carried
  \/ LoadClip /\ Carried

SpecCarry == Init /\ [][NextCarry]_vars

\* C21: whenever speedMultiplier, quantizeToFrames, playing or
\* animationDuration changes value, subFrameAccumulator is 0 once the
\* handler that changed it is done, which is before the next tick reads it:
\* the fraction carried under the previous rate or mode is gone.
C21_ResetOnChange == carry.changed => subFrameAcc = 0

\* C21 witness: the speed has been changed in quantized playback while the
\* accumulator held a fraction of a frame
C21_Witness ==
  /\ carry.changed
  /\ carry.before > 0
  /\ subFrameAcc = 0
  /\ last.op = "setSpeed"
  /\ snapFrames
  /\ playing
  /\ duration > 0

\* C22: in quantized mode a tick adds to currentTime, before the wrap,
\* floor((accumulator + dt x speed) x FPS) whole frames of 1/FPS (dt as
\* clamped, speed as applied) and stores the remainder: the accumulator is
\* always in [0, 1/FPS), and over the ticks since the accumulator was last
\* cleared the time applied plus the accumulator is the sum of dt x speed.
C22_WholeFrames ==
  /\ subFrameAcc >= 0
  /\ subFrameAcc < step
  /\ (last.op = "tick" /\ snapFrames /\ ~TickIdle)
       => /\ carry.applied = ((carry.before + carry.delta) \div step) * step
          /\ subFrameAcc = carry.before + carry.delta - carry.applied
  /\ snapFrames => carry.owed = subFrameAcc

\* C22 witness: a quantized tick found a fraction in the accumulator, applied
\* a whole frame and left another fraction behind
C22_Witness ==
  /\ last.op = "tick"
  /\ snapFrames
  /\ ~TickIdle
  /\ carry.before > 0
  /\ carry.delta > 0
  /\ carry.applied = step
  /\ subFrameAcc > 0

\* C23 as stated: in Bound-Quantized state the value a tick returns lies in
\* [0, animationDuration - frameStep/2].
C23_Original ==
  (last.op = "tick" /\ snapFrames /\ duration > 0)
  => (time >= 0 /\ 2 * time <= 2 * duration - step)

\* C23 amended: in Bound-Quantized state a playing tick that applies at
\* least one whole frame returns a value in
\* [0, animationDuration - frameStep/2]; a tick that applies no frame
\* returns the time it found.
C23_ClampAfterWrap ==
  [][(last'.op = "tick" /\ snapFrames /\ duration > 0)
       => IF carry'.applied > 0
          THEN playing /\ time' >= 0 /\ 2 * time' <= 2 * duration - step
          ELSE time' = time]_vars

\* C23 witness: the wrapped value lay within half a frame of the end of the
\* clip and the tick returned the end less half a frame
C23_Witness ==
  /\ last.op = "tick"
  /\ snapFrames
  /\ ~TickIdle
  /\ carry.applied > 0
  /\ last.prev = 0
  /\ time % step # 0
  /\ 2 * time = 2 * duration - step
  /\ duration % step = 0

(* --------------------------- clip swap, pose --------------------------- *)

\* C24: when the bound clip is swapped (a session change or an FBX upload
\* sets a new clip URL) animationDuration is 0 from the swap until the next
\* ready-duration event, so a tick that follows the swap does not advance
\* currentTime.
C24_SwapUnbinds ==
  [][/\ last'.op = "load" => duration' = 0
     /\ (last.op = "load" /\ last'.op = "tick") => time' = time]_vars

\* FBXModel, useFrame: const t = dur > 0 ? (time % dur + dur) % dur : 0, with
\* dur the duration of the bound clip, the value onReadyDuration reported
PoseTime == IF duration > 0 THEN WrapTime(time, duration) ELSE 0

\* SimpleGraph: the playhead stands at
\* Math.min(xMax, Math.max(xMin, currentJsonTime)), as a fraction num / den
PlayheadTime ==
  [num |-> Min(xMax * CurrentJsonTime.den, Max(0, CurrentJsonTime.num)),
   den |-> CurrentJsonTime.den]

\* C26: in every state with animationDuration > 0 and signalDuration > 0 the
\* time at which the model is posed divided by animationDuration equals the
\* signal time of the chart playhead divided by signalDuration.
C26_SamePoint ==
  (duration > 0 /\ jsonDuration > 0)
  => PoseTime * PlayheadTime.den * jsonDuration = PlayheadTime.num * duration

\* the keys of the sheet outside the time column, the frame column and the
\* names that read as times
C25_NonTimeKeys ==
  {k \in KeySet(SheetKeys) :
     /\ ~(TimeKey(SheetKeys).found /\ k = TimeKey(SheetKeys).key)
     /\ ~(FrameKey(SheetKeys).found /\ k = FrameKey(SheetKeys).key)
     /\ ~IsTimeLike(k)}

\* C25: a sheet in the output is non-empty, each of its rows has a finite t
\* and at least one other key, all values finite; a sheet with no header
\* columns, no data rows, or no row with a numeric non-time cell is not in
\* the output.
C25_OutputWellFormed ==
  sheetPc = "included" =>
    /\ cleaned # <<>>
    /\ \A j \in 1..Len(cleaned) :
         /\ IsFinite(cleaned[j].t)
         /\ DOMAIN cleaned[j].vals # {}
         /\ \A k \in DOMAIN cleaned[j].vals : IsFinite(cleaned[j].vals[k])
    /\ Len(extract.headers) > 0
    /\ Len(extract.dataRows) > 0
    /\ \E i \in 1..Len(SheetRows) :
         \E k \in C25_NonTimeKeys : IsNumericCell(SheetRows[i][k])

\* C30: for every header row, rows with a name of the form 'X (2)' included,
\* the headers are pairwise distinct, so that toObjects gives every column a
\* key of its own.
C30_DistinctHeaders ==
  sheetPc # "table" =>
    /\ \A i, j \in 1..Len(extract.headers) :
         i # j => extract.headers[i] # extract.headers[j]
    /\ Len(KeysOf(extract.headers)) = Len(extract.headers)

\* C27: once every load has completed, the latest of them a spreadsheet
\* load that succeeded, and a session of the selected player's manifest is
\* selected, the chart rows displayed are those of the selected player and
\* session, whatever the order in which the loads completed.
C27_LatestSessionWins ==
  (manifestLoads = {} /\ excelLoads = {} /\ loadEvent = "excelOk"
   /\ manifest = playerName /\ session # Null)
  => rowsBySheet = Owner(playerName, session)

\* C28: a manifest load whose effect has been cleaned up (its player is no
\* longer the selected one) changes neither manifest nor session, whether it
\* succeeds or fails.
C28_CancelledManifestInert ==
  [][\A l \in manifestLoads :
       (l.cancelled /\ l \notin manifestLoads'
        /\ loadEvent' \in {"manifestOk", "manifestFail"})
       => UNCHANGED <<manifest, session>>]_vars

(* -------------------------- the chart's pointer ------------------------ *)
(* SimpleGraph.tsx: the transparent rect over the plot area and its        *)
(* pointer handlers.  A handler sees hoverT as it was at the latest        *)
(* render; what updateHover sets is rendered when the handler is done.     *)
(* onSeek is handleGraphSeek.                                              *)

\* the layout in pixels: margin.left and innerW
Plot == [left |-> 2, innerW |-> 5]

\* pxToX: xMin + Math.min(1, Math.max(0, (px - margin.left) / innerW)) * (xMax - xMin),
\* with xMin = 0, and 0 when xMax <= xMin
pxToX(px) ==
  IF xMax <= 0 THEN 0
  ELSE (Min(Plot.innerW, Max(0, px - Plot.left)) * xMax) \div Plot.innerW

\* updateHover(clientX, clientY) for a pointer at localX = px and at a
\* height inside the plot: the hoverT it sets, none outside the plot area
updateHover(px) ==
  IF px < Plot.left \/ px > Plot.left + Plot.innerW THEN {} ELSE {pxToX(px)}

\* a clip of two frames and a signal of MaxSignalDuration seconds are shown
InitPointer ==
  /\ time = 0
  /\ duration = 2 * step
  /\ playing = FALSE
  /\ speed = SpeedScale
  /\ snapFrames \in BOOLEAN
  /\ subFrameAcc = 0
  /\ jsonDuration = MaxSignalDuration * SignalScale
  /\ lastTsNull = TRUE
  /\ last = [op |-> "init", arg |-> 0, prev |-> 0]
  /\ SheetIdle
  /\ LoadIdle
  /\ advance = 0
  /\ carry = CarryIdle
  /\ chart = ChartIdle

\* onPointerDown on the rect: downRef.current = true; setPointerCapture;
\* updateHover(e.clientX, e.clientY); if (onSeek && hoverT != null) onSeek(hoverT)
PointerDown(px) ==
  /\ px >= Plot.left /\ px <= Plot.left + Plot.innerW
  /\ IF chart.hoverT # {}
     THEN \E t \in chart.hoverT : HandleGraphSeek(t)
     ELSE UNCHANGED playbackVars
  /\ chart' = [hoverT |-> updateHover(px), down |-> TRUE, event |-> "down",
               px |-> px, seek |-> chart.hoverT]
  /\ UNCHANGED <<sheetVars, loadVars, advance, carry>>

\* onPointerMove: updateHover(e.clientX, e.clientY);
\* if (downRef.current && onSeek && hoverT != null) onSeek(hoverT).  A
\* captured pointer is also followed outside the rect
PointerMove(px) ==
  /\ chart.down \/ (px >= Plot.left /\ px <= Plot.left + Plot.innerW)
  /\ IF chart.down /\ chart.hoverT # {}
     THEN \E t \in chart.hoverT : HandleGraphSeek(t)
     ELSE UNCHANGED playbackVars
  /\ chart' = [hoverT |-> updateHover(px), down |-> chart.down, event |-> "move",
               px |-> px, seek |-> IF chart.down THEN chart.hoverT ELSE {}]
  /\ UNCHANGED <<sheetVars, loadVars, advance, carry>>

\* onPointerUp: downRef.current = false; releasePointerCapture
PointerUp ==
  /\ chart.down
  /\ chart' = [chart EXCEPT !.down = FALSE, !.event = "up", !.seek = {}]
  /\ UNCHANGED <<playbackVars, sheetVars, loadVars, advance, carry>>

\* onPointerLeave, onPointerCancel: downRef.current = false; clearHover()
PointerLeave ==
  /\ chart' = [chart EXCEPT !.down = FALSE, !.event = "leave", !.seek = {},
                            !.hoverT = {}]
  /\ UNCHANGED <<playbackVars, sheetVars, loadVars, advance, carry>>

NextPointer ==
  \/ \E px \in 0..(Plot.left + Plot.innerW + 2) : PointerDown(px)
  \/ \E px \in 0..(Plot.left + Plot.innerW + 2) : PointerMove(px)
  \/ PointerUp
  \/ PointerLeave

SpecPointer == InitPointer /\ [][NextPointer]_vars

\* C29: every pointer-down inside the plot area emits a seek, and a seek
\* emitted on pointer-down or pointer-drag carries the signal time under
\* the pointer at that event, the event's x mapped to [0, signalDuration].
C29_SeekUnderPointer ==
  /\ chart.event = "down" => chart.seek # {}
  /\ chart.event \in {"down", "move"} =>
       \A t \in chart.seek : t = pxToX(chart.px)

====
